---- MODULE Spec2Model ----
(***************************************************************************)
(* A model of yodalib's DecompilerInterface (the synchronization core):    *)
(* the re-entrancy guard of artifact_set_event_handler, run by threads     *)
(* that interleave at every step that reads or writes artifact_set_lock,   *)
(* the kind dispatch of set_artifact, and the query operations (decompile, *)
(* global_artifact(s), the optional artifact API's defaults,               *)
(* type_is_user_defined, discover_interface, the artifact tables).         *)
(*                                                                         *)
(* Every thread has a call stack of frames.  A frame is one activation of  *)
(* artifact_set_event_handler ("handler"), of set_artifact                 *)
(* ("set_artifact") or of a backend setter body ("setter").                *)
(***************************************************************************)
EXTENDS Integers, Sequences, FiniteSets, TLC

\* ----------------------------------------------------------------- bounds
\* The most artifact_set_event_handler calls in progress at once, over all threads
\* and nesting levels.
MaxCalls == 4
\* Canonical artifact addresses are 0..MaxAddr.
MaxAddr == 1

\* ------------------------------------------------------------ collaborators
\* The Lifter's configured address-space base offset (spec 4.1).
BaseAddr == 2

Threads == {"t1", "t2"}

\* The concrete artifact kinds (the classes imported from yodalib.data).
ConcreteKinds ==
    {"Function", "FunctionHeader", "StackVariable", "Comment",
     "GlobalVariable", "Struct", "Enum", "Patch"}

\* The abstract supertype, and an object of a class the interface does not know.
AbstractKind == "Artifact"
ForeignKind == "Other"
AllKinds == ConcreteKinds \cup {AbstractKind, ForeignKind}

\* The backend setters, and the kind each takes (its parameter's annotation).
Setters ==
    {"_set_function", "_set_function_header", "_set_stack_variable", "_set_comment",
     "_set_global_variable", "_set_struct", "_set_enum", "_set_patch"}

SetterParamKind(s) ==
    CASE s = "_set_function" -> "Function"
      [] s = "_set_function_header" -> "FunctionHeader"
      [] s = "_set_stack_variable" -> "StackVariable"
      [] s = "_set_comment" -> "Comment"
      [] s = "_set_global_variable" -> "GlobalVariable"
      [] s = "_set_struct" -> "Struct"
      [] s = "_set_enum" -> "Enum"
      [] s = "_set_patch" -> "Patch"
      [] OTHER -> "none"

\* The wrapped setters that the explored change callbacks call.
EventSetters == {"_set_comment", "_set_struct"}

Addrs == 0..MaxAddr

NoArtifact == [kind |-> "none", addr |-> 0]

\* What a call can end with: a boolean, or a raised exception.
Booleans == {"True", "False"}
Exceptions == {"ValueError", "Error"}
Outcomes == Booleans \cup Exceptions

\* ArtifactLifter.lower_addr: the inverse of lifting, which subtracts the base.
LowerAddr(addr) == addr + BaseAddr

LiftAddr(addr) == addr - BaseAddr

\* ArtifactLifter.lower / lift: the kind is kept, the address is translated.
Lower(a) == [a EXCEPT !.addr = LowerAddr(@)]

Lift(a) == [a EXCEPT !.addr = LiftAddr(@)]

\* DecompilerInterface.lower_artifact
lower_artifact(a) == Lower(a)

\* ------------------------------------------------------------------- state
VARIABLES
    artifact_set_lock,  \* "free", or the thread that acquired the threading.Lock
    stack,              \* per thread: its call stack, the top frame last
    ret,                \* per thread: what its last top-level call ended with
    acquired,           \* per thread: acquisitions of the lock in the current call chain
    released,           \* per thread: releases of the lock in the current call chain
    wrapped,            \* whether the backend decorates its setters with artifact_set_event
    live,               \* the threads that make calls
    backend,            \* what the backend adapter implements, and the data it holds
    call                \* the last call of a query operation: its input and its outcome

vars == <<artifact_set_lock, stack, ret, acquired, released, wrapped, live, backend, call>>

\* --------------------------------------------------------------- frames
NewFrame(fn, setter, a, lowerFlag, pc) ==
    [fn |-> fn, setter |-> setter, artifact |-> a, arg |-> NoArtifact,
     lower |-> lowerFlag, lock |-> "none", pc |-> pc, out |-> "none",
     res |-> "none", nlower |-> 0, ncall |-> 0, fired |-> FALSE]

Top(t) == stack[t][Len(stack[t])]

Below(t) == stack[t][Len(stack[t]) - 1]

Pop(s) == SubSeq(s, 1, Len(s) - 1)

SetTop(s, f) == [s EXCEPT ![Len(s)] = f]

HandlerDepth(t) == Cardinality({i \in 1..Len(stack[t]) : stack[t][i].fn = "handler"})

RECURSIVE SumDepth(_)
SumDepth(T) ==
    IF T = {} THEN 0
    ELSE LET t == CHOOSE u \in T : TRUE IN HandlerDepth(t) + SumDepth(T \ {t})

\* The artifact_set_event_handler calls in progress.
CallsInProgress == SumDepth(Threads)

\* ------------------------------------------- set_artifact: table and results
\* Lines 345-355: the dispatch table, keyed by the artifact's class.
set_map ==
    [Function |-> "_set_function",
     FunctionHeader |-> "_set_function_header",
     StackVariable |-> "_set_stack_variable",
     Comment |-> "_set_comment",
     GlobalVariable |-> "_set_global_variable",
     Struct |-> "_set_struct",
     Enum |-> "_set_enum",
     Patch |-> "_set_patch",
     Artifact |-> "None"]

\* The FunctionHeader entry pointing at the Function setter.
SetMapGetHeaderAsFunction(kind) ==
    IF kind = "FunctionHeader" THEN "_set_function"
    ELSE IF kind \in DOMAIN set_map THEN set_map[kind] ELSE "None"

\* A class missing from the table falling back to a setter instead of None.
SetMapGetDefaultSetter(kind) ==
    IF kind \in DOMAIN set_map THEN set_map[kind] ELSE "_set_function"

\* Line 360: set_map.get(type(artifact), None), on the exact class.
SetMapGet(kind) == IF kind \in DOMAIN set_map THEN set_map[kind] ELSE "None"

\* Lowering whatever the flag says.
SetArtifactLoweredAlways(f) ==
    [f EXCEPT !.arg = lower_artifact(f.artifact), !.nlower = @ + 1]

\* Lines 357-358: `if lower: artifact = self.lower_artifact(artifact)`.
SetArtifactLowered(f) ==
    IF f.lower
       THEN [f EXCEPT !.arg = lower_artifact(f.artifact), !.nlower = @ + 1]
       ELSE [f EXCEPT !.arg = f.artifact]

\* A catch-all around the setter call.
SetArtifactResultCatchAll(out) == IF out \in {"ValueError", "Error"} THEN "False" ELSE out

\* Line 365: `return setter(artifact, **kwargs)`: nothing is caught.
SetArtifactResult(out) == out

\* ------------------------------------------------- artifact_set_event_handler
\* A plain lock, with no test of locked().
LockChoiceAlwaysReal(l) == "real"

\* Line 430: the real lock when it is not locked() right now, a no-op guard otherwise.
LockChoice(l) == IF l = "free" THEN "real" ELSE "dummy"

\* Line 431, `with lock:` entering: a real lock is acquired only when free.
CanEnter(f) == f.lock = "dummy" \/ artifact_set_lock = "free"

\* The setter called with the artifact as it arrived.
SetterArgumentOriginal(f) == f.artifact

\* Line 433: what the setter is called with.
SetterArgument(f) == f.arg

\* No except clause.
HandlerCatchNothing(out) == out

\* Lines 432-435: `except ValueError: had_changes = False`; anything else passes.
HandlerCatch(out) == IF out = "ValueError" THEN "False" ELSE out

\* acquire() ... release() with no try/finally: an exception skips the release.
ExitReleasesOnSuccess(f) == f.lock = "real" /\ f.out \notin {"ValueError", "Error"}

\* Line 431, `with lock:` leaving: __exit__ runs however the block ended.
ExitReleases(f) == f.lock = "real"

\* A wrapped setter is called (artifact_set_event, lines 24-29): the event arrives.
Event(t, s, addr) ==
    /\ t \in live
    /\ wrapped
    /\ stack[t] = <<>>
    /\ CallsInProgress < MaxCalls
    /\ stack' = [stack EXCEPT ![t] =
          <<NewFrame("handler", s, [kind |-> SetterParamKind(s), addr |-> addr],
                     TRUE, "lowering")>>]
    /\ ret' = [ret EXCEPT ![t] = "none"]
    /\ acquired' = [acquired EXCEPT ![t] = 0]
    /\ released' = [released EXCEPT ![t] = 0]
    /\ UNCHANGED <<artifact_set_lock, wrapped, live, backend, call>>

\* Line 429.
HandlerLower(t) ==
    /\ stack[t] # <<>>
    /\ Top(t).fn = "handler"
    /\ Top(t).pc = "lowering"
    /\ stack' = [stack EXCEPT ![t] = SetTop(@,
          [Top(t) EXCEPT !.arg = lower_artifact(Top(t).artifact),
                         !.nlower = @ + 1,
                         !.pc = "lock_check"])]
    /\ UNCHANGED <<artifact_set_lock, ret, acquired, released, wrapped, live, backend, call>>

\* Line 430.
HandlerLockCheck(t) ==
    /\ stack[t] # <<>>
    /\ Top(t).fn = "handler"
    /\ Top(t).pc = "lock_check"
    /\ stack' = [stack EXCEPT ![t] = SetTop(@,
          [Top(t) EXCEPT !.lock = LockChoice(artifact_set_lock), !.pc = "enter"])]
    /\ UNCHANGED <<artifact_set_lock, ret, acquired, released, wrapped, live, backend, call>>

\* Lines 431-433: enter the guard (blocking on a held real lock), call the setter.
HandlerEnter(t) ==
    /\ stack[t] # <<>>
    /\ Top(t).fn = "handler"
    /\ Top(t).pc = "enter"
    /\ CanEnter(Top(t))
    /\ artifact_set_lock' = IF Top(t).lock = "real" THEN t ELSE artifact_set_lock
    /\ acquired' = [acquired EXCEPT ![t] = IF Top(t).lock = "real" THEN @ + 1 ELSE @]
    /\ stack' = [stack EXCEPT ![t] =
          Append(SetTop(@, [Top(t) EXCEPT !.pc = "set", !.ncall = @ + 1]),
                 NewFrame("setter", Top(t).setter, SetterArgument(Top(t)), FALSE, "body"))]
    /\ UNCHANGED <<ret, released, wrapped, live, backend, call>>

\* Lines 431, 437: leave the guard, then return had_changes or let the exception go on.
HandlerExit(t) ==
    /\ stack[t] # <<>>
    /\ Top(t).fn = "handler"
    /\ Top(t).pc = "release"
    /\ artifact_set_lock' = IF ExitReleases(Top(t)) THEN "free" ELSE artifact_set_lock
    /\ released' = [released EXCEPT ![t] = IF ExitReleases(Top(t)) THEN @ + 1 ELSE @]
    /\ IF Len(stack[t]) = 1
          THEN /\ stack' = [stack EXCEPT ![t] = <<>>]
               /\ ret' = [ret EXCEPT ![t] = Top(t).res]
          ELSE /\ ret' = ret
               /\ stack' = [stack EXCEPT ![t] = SetTop(Pop(@),
                     IF Below(t).fn = "set_artifact"
                        THEN [Below(t) EXCEPT !.out = Top(t).res,
                                              !.res = SetArtifactResult(Top(t).res),
                                              !.pc = "return"]
                        ELSE [Below(t) EXCEPT !.res =
                                 IF Top(t).res \in Exceptions THEN Top(t).res ELSE @])]
    /\ UNCHANGED <<acquired, wrapped, live, backend, call>>

\* ---------------------------------------------------------------- setters
\* The backend mutation made by a setter body fires a change callback, which calls
\* a wrapped setter with the lifted artifact: a nested artifact_set_event_handler call.
SetterFire(t, s) ==
    /\ stack[t] # <<>>
    /\ Top(t).fn = "setter"
    /\ wrapped
    /\ ~Top(t).fired
    /\ Top(t).res = "none"
    /\ CallsInProgress < MaxCalls
    /\ stack' = [stack EXCEPT ![t] =
          Append(SetTop(@, [Top(t) EXCEPT !.fired = TRUE]),
                 NewFrame("handler", s,
                          [kind |-> SetterParamKind(s),
                           addr |-> Lift(Top(t).artifact).addr],
                          TRUE, "lowering"))]
    /\ UNCHANGED <<artifact_set_lock, ret, acquired, released, wrapped, live, backend, call>>

\* A setter body ends: it returns a boolean or raises; an exception that came out of
\* its callback goes on through it.
SetterReturn(t, outcome) ==
    /\ stack[t] # <<>>
    /\ Top(t).fn = "setter"
    /\ Len(stack[t]) > 1
    /\ Top(t).res \in {"none", outcome}
    /\ stack' = [stack EXCEPT ![t] = SetTop(Pop(@),
          IF Below(t).fn = "handler"
             THEN [Below(t) EXCEPT !.out = outcome, !.res = HandlerCatch(outcome),
                                   !.pc = "release"]
             ELSE [Below(t) EXCEPT !.out = outcome, !.res = SetArtifactResult(outcome),
                                   !.pc = "return"])]
    /\ UNCHANGED <<artifact_set_lock, ret, acquired, released, wrapped, live, backend, call>>

\* ------------------------------------------------------------ set_artifact
\* A caller calls set_artifact(artifact, lower).
SetArtifactCall(t, a, lowerFlag) ==
    /\ t \in live
    /\ stack[t] = <<>>
    /\ stack' = [stack EXCEPT ![t] =
          <<NewFrame("set_artifact", "none", a, lowerFlag, "lower")>>]
    /\ ret' = [ret EXCEPT ![t] = "none"]
    /\ acquired' = [acquired EXCEPT ![t] = 0]
    /\ released' = [released EXCEPT ![t] = 0]
    /\ UNCHANGED <<artifact_set_lock, wrapped, live, backend, call>>

\* Lines 357-358.
SetArtifactLower(t) ==
    /\ stack[t] # <<>>
    /\ Top(t).fn = "set_artifact"
    /\ Top(t).pc = "lower"
    /\ stack' = [stack EXCEPT ![t] = SetTop(@,
          [SetArtifactLowered(Top(t)) EXCEPT !.pc = "dispatch"])]
    /\ UNCHANGED <<artifact_set_lock, ret, acquired, released, wrapped, live, backend, call>>

\* Lines 360-365: look the setter up; without one return False, else call it.  A
\* setter decorated with artifact_set_event runs artifact_set_event_handler.
SetArtifactDispatch(t) ==
    /\ stack[t] # <<>>
    /\ Top(t).fn = "set_artifact"
    /\ Top(t).pc = "dispatch"
    /\ LET setter == SetMapGet(Top(t).arg.kind)
       IN  stack' = [stack EXCEPT ![t] =
              IF setter = "None"
                 THEN SetTop(@, [Top(t) EXCEPT !.setter = setter, !.res = "False",
                                               !.pc = "return"])
                 ELSE Append(SetTop(@, [Top(t) EXCEPT !.setter = setter, !.pc = "call",
                                                      !.ncall = @ + 1]),
                             IF wrapped
                                THEN NewFrame("handler", setter, Top(t).arg, TRUE,
                                              "lowering")
                                ELSE NewFrame("setter", setter, Top(t).arg, FALSE,
                                              "body"))]
    /\ UNCHANGED <<artifact_set_lock, ret, acquired, released, wrapped, live, backend, call>>

\* Lines 363, 365: set_artifact is left, with a result or with the setter's exception.
SetArtifactReturn(t) ==
    /\ stack[t] # <<>>
    /\ Top(t).fn = "set_artifact"
    /\ Top(t).pc = "return"
    /\ stack' = [stack EXCEPT ![t] = <<>>]
    /\ ret' = [ret EXCEPT ![t] = Top(t).res]
    /\ UNCHANGED <<artifact_set_lock, acquired, released, wrapped, live, backend, call>>

\* ------------------------------------------------------------ specification
TypeOK ==
    /\ artifact_set_lock \in {"free"} \cup Threads
    /\ ret \in [Threads -> {"none"} \cup Outcomes]
    /\ acquired \in [Threads -> 0..MaxCalls]
    /\ released \in [Threads -> 0..MaxCalls]
    /\ wrapped \in BOOLEAN
    /\ live \subseteq Threads

\* No backend data and no query call: the state of the specifications that follow
\* the setting of artifacts only.
NoBackend == [name |-> "none"]

NoCall == [op |-> "none"]

InitCommon ==
    /\ backend = NoBackend
    /\ call = NoCall
    /\ artifact_set_lock = "free"
    /\ stack = [t \in Threads |-> <<>>]
    /\ ret = [t \in Threads |-> "none"]
    /\ acquired = [t \in Threads |-> 0]
    /\ released = [t \in Threads |-> 0]

\* Callbacks are delivered on two threads.
Init ==
    /\ InitCommon
    /\ wrapped = TRUE
    /\ live = Threads

\* Callbacks are delivered on one thread only.
InitOneThread ==
    /\ InitCommon
    /\ wrapped = TRUE
    /\ live = {"t1"}

HandlerStep(t) ==
    \/ HandlerLower(t)
    \/ HandlerLockCheck(t)
    \/ HandlerEnter(t)
    \/ HandlerExit(t)

SetterStep(t) ==
    \/ \E s \in EventSetters : SetterFire(t, s)
    \/ \E outcome \in Outcomes : SetterReturn(t, outcome)

Next ==
    \E t \in Threads :
        \/ \E s \in EventSetters, addr \in Addrs : Event(t, s, addr)
        \/ HandlerStep(t)
        \/ SetterStep(t)

Spec == Init /\ [][Next]_vars

SpecOneThread == InitOneThread /\ [][Next]_vars

\* One caller of set_artifact, on a backend that decorates its setters or does not.
InitSet ==
    /\ InitCommon
    /\ wrapped \in BOOLEAN
    /\ live = {"t1"}

SetArtifactStep(t) ==
    \/ \E k \in AllKinds, addr \in Addrs, lowerFlag \in BOOLEAN :
          SetArtifactCall(t, [kind |-> k, addr |-> addr], lowerFlag)
    \/ SetArtifactLower(t)
    \/ SetArtifactDispatch(t)
    \/ SetArtifactReturn(t)

NextSet ==
    \E t \in Threads :
        \/ SetArtifactStep(t)
        \/ HandlerStep(t)
        \/ SetterStep(t)

SpecSet == InitSet /\ [][NextSet]_vars

\* ------------------------------------------------------------------ claims
HandlerFrames(t) == {i \in DOMAIN stack[t] : stack[t][i].fn = "handler"}

SetArtifactFrames(t) == {i \in DOMAIN stack[t] : stack[t][i].fn = "set_artifact"}

\* The outermost artifact_set_event_handler call of t's call chain.
IsOuter(t, i) == \A j \in HandlerFrames(t) : i <= j

\* C1: on one thread, a nested artifact_set_event_handler call never blocks and takes
\* the no-op guard, so it neither acquires nor releases artifact_set_lock; the
\* outermost call acquires the lock once, holds it while its setter runs (the whole
\* nested chain included) and releases it once when the setter has finished.
C1_ReentrancySafe ==
    \A t \in Threads :
        /\ acquired[t] <= 1
        /\ released[t] <= acquired[t]
        /\ (stack[t] = <<>> /\ ret[t] # "none") =>
              (acquired[t] = 1 /\ released[t] = 1 /\ artifact_set_lock = "free")
        /\ \A i \in HandlerFrames(t) :
              LET f == stack[t][i]
              IN  /\ f.pc = "enter" => CanEnter(f)
                  /\ (~IsOuter(t, i) /\ f.pc \in {"enter", "set", "release"}) =>
                        f.lock = "dummy"
                  /\ (IsOuter(t, i) /\ f.pc \in {"set", "release"}) =>
                        /\ f.lock = "real"
                        /\ artifact_set_lock = t
                        /\ acquired[t] = 1
                        /\ released[t] = 0

\* C1 witness: the third call of a chain has run its setter under the no-op guard
\* while the outermost call still holds the lock it acquired.
C1_Witness ==
    /\ HandlerDepth("t1") = 3
    /\ Top("t1").fn = "handler"
    /\ Top("t1").pc = "release"
    /\ Top("t1").lock = "dummy"
    /\ stack["t1"][1].lock = "real"
    /\ artifact_set_lock = "t1"
    /\ acquired["t1"] = 1

\* The setter body of a top-level (non-nested) event of t is executing.
RunsTopLevelSetter(t) ==
    /\ Len(stack[t]) = 2
    /\ stack[t][1].fn = "handler"
    /\ stack[t][2].fn = "setter"

\* C2: the setter bodies of two independent events delivered on two threads never
\* execute at the same time.
C2_SetterMutualExclusion ==
    \A t, u \in Threads : t # u => ~(RunsTopLevelSetter(t) /\ RunsTopLevelSetter(u))

\* C3: the lock is held only by a handler call in progress that acquired it and is
\* yet to leave its guard; once a thread's call chain has ended, however the setter
\* ended, every acquisition of the chain has been released.
C3_UnconditionalRelease ==
    \A t \in Threads :
        /\ artifact_set_lock = t =>
              \E i \in HandlerFrames(t) :
                  stack[t][i].lock = "real" /\ stack[t][i].pc \in {"set", "release"}
        /\ stack[t] = <<>> => released[t] = acquired[t]

\* C3 witness: a top-level call whose setter raised another exception than
\* ValueError has ended, and the lock it had acquired is free.
C3_Witness ==
    /\ stack["t1"] = <<>>
    /\ ret["t1"] = "Error"
    /\ acquired["t1"] = 1
    /\ released["t1"] = 1
    /\ artifact_set_lock = "free"

\* C4: a nested handler call made while the lock is held (one that took the no-op
\* guard) starts no further handler call: the chain of nested calls ends with it.
C4_GuardEndsChain ==
    \A t \in Threads :
        \A i, j \in HandlerFrames(t) : stack[t][i].lock = "dummy" => j <= i

\* C5: when the setter raised ValueError the handler's result is False and no
\* ValueError reaches the caller; when the setter returned a boolean the handler's
\* result is that boolean.
C5_ValidationFailureIsNoChange ==
    \A t \in Threads :
        /\ ret[t] # "ValueError"
        /\ \A i \in HandlerFrames(t) :
              LET f == stack[t][i]
              IN  f.pc = "release" =>
                     /\ f.out = "ValueError" => f.res = "False"
                     /\ f.out \in Booleans => f.res = f.out

\* C5 witness: the setter of a top-level event raised ValueError and the handler is
\* about to return False.
C5_Witness ==
    /\ Len(stack["t1"]) = 1
    /\ Top("t1").fn = "handler"
    /\ Top("t1").pc = "release"
    /\ Top("t1").out = "ValueError"
    /\ Top("t1").res = "False"

\* The step of the per-event state machine that the handler call at t's stack
\* position i is in: IDLE when there is none.
HandlerPc(t, i) ==
    IF i \in HandlerFrames(t) THEN stack[t][i].pc ELSE "idle"

C6_Order ==
    {<<"idle", "lowering">>, <<"lowering", "lock_check">>, <<"lock_check", "enter">>,
     <<"enter", "set">>, <<"set", "release">>, <<"release", "idle">>}

C6_Frames ==
    \A t \in Threads :
        /\ stack[t] = <<>> => artifact_set_lock # t
        /\ \A i \in HandlerFrames(t) :
              LET f == stack[t][i]
              IN  /\ f.pc = "lowering" =>
                        /\ f.nlower = 0 /\ f.ncall = 0
                        /\ f.lock = "none" /\ f.arg = NoArtifact /\ f.out = "none"
                  /\ f.pc \in {"lock_check", "enter"} =>
                        /\ f.nlower = 1 /\ f.ncall = 0
                        /\ f.arg = Lower(f.artifact)
                        /\ (f.pc = "lock_check") = (f.lock = "none")
                  /\ f.pc = "set" =>
                        /\ f.nlower = 1 /\ f.ncall = 1
                        /\ f.lock \in {"real", "dummy"}
                        /\ i < Len(stack[t])
                        /\ stack[t][i + 1].fn = "setter"
                        /\ stack[t][i + 1].setter = f.setter
                        /\ stack[t][i + 1].artifact = Lower(f.artifact)
                        /\ stack[t][i + 1].artifact # f.artifact
                  /\ f.pc = "release" =>
                        /\ f.nlower = 1 /\ f.ncall = 1
                        /\ f.out \in Outcomes

C6_FrameStep(t, i) ==
    /\ \/ HandlerPc(t, i)' = HandlerPc(t, i)
       \/ <<HandlerPc(t, i), HandlerPc(t, i)'>> \in C6_Order
    /\ (HandlerPc(t, i) = "enter" /\ HandlerPc(t, i)' = "set") =>
          IF stack[t][i].lock = "real"
             THEN artifact_set_lock = "free" /\ artifact_set_lock' = t
             ELSE artifact_set_lock' = artifact_set_lock
    /\ (HandlerPc(t, i) = "release" /\ HandlerPc(t, i)' = "idle") =>
          IF stack[t][i].lock = "real"
             THEN artifact_set_lock = t /\ artifact_set_lock' = "free"
             ELSE artifact_set_lock' = artifact_set_lock

C6_Step ==
    /\ \A t \in Threads :
          \/ stack[t]' = stack[t]
          \/ \A i \in 1..(IF Len(stack[t]') > Len(stack[t]) THEN Len(stack[t]')
                                                              ELSE Len(stack[t])) :
                C6_FrameStep(t, i)
    /\ artifact_set_lock' # artifact_set_lock =>
          \E t \in Threads :
              /\ stack[t] # <<>>
              /\ stack[t]' # stack[t]
              /\ Top(t).fn = "handler"
              /\ Top(t).lock = "real"
              /\ Top(t).pc \in {"enter", "release"}

\* C6: every handler call goes IDLE, LOWERING, LOCK-CHECK, ACQUIRE-AND-SET or
\* NESTED-SET, RELEASE, IDLE in that order; it lowers once, before the lock is
\* looked at, calls the setter once with the lowered artifact, touches the lock only
\* when entering and leaving a real guard, and leaves nothing behind when it ends.
C6_StateMachine == [](C6_Frames) /\ [][C6_Step]_vars

\* C6 witness: a top-level call that acquired the lock has called its setter once
\* with the once-lowered artifact and is at RELEASE.
C6_Witness ==
    /\ Len(stack["t2"]) = 1
    /\ Top("t2").fn = "handler"
    /\ Top("t2").pc = "release"
    /\ Top("t2").lock = "real"
    /\ Top("t2").nlower = 1
    /\ Top("t2").ncall = 1
    /\ Top("t2").arg.addr = Top("t2").artifact.addr + BaseAddr

\* C7 as claimed: no exception of a single artifact operation reaches the caller of
\* set_artifact or of artifact_set_event_handler.
C7_NoExceptionPropagates ==
    \A t \in Threads : ret[t] \notin Exceptions

\* C7 as amended: artifact_set_event_handler turns a ValueError of its setter into
\* False and lets every other exception go on to its caller; set_artifact catches
\* nothing, so whatever the setter it called ended with, an exception included, is
\* what set_artifact ends with.
C7_OnlyHandlerValueErrorSwallowed ==
    \A t \in Threads :
        /\ \A i \in HandlerFrames(t) :
              LET f == stack[t][i]
              IN  f.pc = "release" =>
                     f.res = (IF f.out = "ValueError" THEN "False" ELSE f.out)
        /\ \A i \in SetArtifactFrames(t) :
              LET f == stack[t][i]
              IN  (f.pc = "return" /\ f.ncall = 1) =>
                     (f.out \in Outcomes /\ f.res = f.out)
        /\ (ret[t] = "ValueError" => ~wrapped)

\* C7 witness: set_artifact called an undecorated setter that raised ValueError and
\* ends with that ValueError.
C7_Witness ==
    /\ ~wrapped
    /\ Len(stack["t1"]) = 1
    /\ Top("t1").fn = "set_artifact"
    /\ Top("t1").pc = "return"
    /\ Top("t1").out = "ValueError"
    /\ Top("t1").res = "ValueError"

\* C8: for an artifact of a concrete kind, set_artifact calls one setter, the one
\* that takes that kind, once, with nothing else called in its place, and ends with
\* what that setter ended with.
C8_DispatchComplete ==
    \A t \in Threads :
        \A i \in SetArtifactFrames(t) :
            LET f == stack[t][i]
            IN  f.arg.kind \in ConcreteKinds =>
                   /\ f.pc = "dispatch" => (f.ncall = 0 /\ Len(stack[t]) = i)
                   /\ f.pc \in {"call", "return"} =>
                         /\ f.ncall = 1
                         /\ f.setter \in Setters
                         /\ SetterParamKind(f.setter) = f.arg.kind
                   /\ f.pc = "call" =>
                         /\ i < Len(stack[t])
                         /\ stack[t][i + 1].fn = (IF wrapped THEN "handler" ELSE "setter")
                         /\ stack[t][i + 1].setter = f.setter
                         /\ stack[t][i + 1].artifact = f.arg
                         /\ \A j \in (i + 1)..Len(stack[t]) :
                               (stack[t][j].fn = "setter" /\ ~wrapped) => j = i + 1
                   /\ f.pc = "return" => (f.out \in Outcomes /\ f.res = f.out)

\* C8 witness: set_artifact dispatched a FunctionHeader to _set_function_header and
\* ends with the True that setter returned.
C8_Witness ==
    /\ Len(stack["t1"]) = 1
    /\ Top("t1").fn = "set_artifact"
    /\ Top("t1").pc = "return"
    /\ Top("t1").arg.kind = "FunctionHeader"
    /\ Top("t1").setter = "_set_function_header"
    /\ Top("t1").res = "True"

\* C9: for an artifact of the abstract kind or of a kind outside the table,
\* set_artifact calls no setter, takes no lock, and ends with False and no exception,
\* with lower true and with lower false.
C9_UnsupportedKind ==
    \A t \in Threads :
        \A i \in SetArtifactFrames(t) :
            LET f == stack[t][i]
            IN  (f.pc # "lower" /\ f.arg.kind \notin ConcreteKinds) =>
                   /\ f.pc \in {"dispatch", "return"}
                   /\ f.ncall = 0
                   /\ Len(stack[t]) = i
                   /\ acquired[t] = 0
                   /\ f.pc = "return" => (f.res = "False" /\ f.setter = "None")

\* C9 witness: set_artifact of an object of an unknown class, lowered first, ends
\* with False.
C9_Witness ==
    /\ Len(stack["t1"]) = 1
    /\ Top("t1").fn = "set_artifact"
    /\ Top("t1").pc = "return"
    /\ Top("t1").lower
    /\ Top("t1").arg.kind = ForeignKind
    /\ Top("t1").res = "False"

\* C10: with lower true set_artifact lowers the artifact once, before the dispatch,
\* and hands the lowered artifact to the setter; with lower false it never calls the
\* Lifter and hands the setter the artifact it was given.
C10_LowerFlag ==
    \A t \in Threads :
        \A i \in SetArtifactFrames(t) :
            LET f == stack[t][i]
            IN  /\ f.pc = "lower" => f.nlower = 0
                /\ f.pc # "lower" =>
                      /\ f.lower => (f.nlower = 1 /\ f.arg = Lower(f.artifact))
                      /\ ~f.lower => (f.nlower = 0 /\ f.arg = f.artifact)
                /\ f.pc = "call" => stack[t][i + 1].artifact = f.arg

\* C10 witness: with lower false the called setter holds the caller's artifact.
C10_Witness ==
    /\ Len(stack["t1"]) = 2
    /\ stack["t1"][1].fn = "set_artifact"
    /\ stack["t1"][1].pc = "call"
    /\ ~stack["t1"][1].lower
    /\ stack["t1"][1].nlower = 0
    /\ stack["t1"][2].artifact = stack["t1"][1].artifact

\* ================================================================ queries
\* While a query operation is explored nothing is being set.
SettersIdle ==
    /\ artifact_set_lock = "free"
    /\ stack = [t \in Threads |-> <<>>]
    /\ ret = [t \in Threads |-> "none"]
    /\ acquired = [t \in Threads |-> 0]
    /\ released = [t \in Threads |-> 0]
    /\ wrapped = FALSE
    /\ live = {}

setVars == <<artifact_set_lock, stack, ret, acquired, released, wrapped, live>>

\* ---------------------------------------------------------------- decompile
\* The largest size of a function, and the most functions of a backend.
MaxFuncSize == 2
MaxFuncs == 2

\* Addresses in either convention: canonical ones and their lowered forms.
FuncAddrs == 0..(MaxAddr + BaseAddr)

\* What _functions() holds of a function: its address and its size.
FuncStubs == [addr : FuncAddrs, size : 0..MaxFuncSize]

NoFunc == [addr |-> -1, size |-> 0]

\* The sequences over S of at most n elements: a dict's values in iteration order.
SeqsUpTo(S, n) == UNION {[1..k -> S] : k \in 0..n}

\* The range test with the end address counted in.
ContainsClosed(f, a) == f.addr <= a /\ a <= f.addr + f.size

\* Line 135: func.addr <= search_addr < (func.addr + func.size).
Contains(f, a) == f.addr <= a /\ a < f.addr + f.size

\* Lines 134-139: the first function, in iteration order, that contains a; 0 if none.
RECURSIVE FindFunc(_, _, _)
FindFunc(funcs, a, i) ==
    IF i > Len(funcs) THEN 0
    ELSE IF Contains(funcs[i], a) THEN i
    ELSE FindFunc(funcs, a, i + 1)

\* Line 132: the address as given, then the address translated by the Lifter.
SearchAddrs(addr) == <<addr, LowerAddr(addr)>>

\* Lines 132-144: the outer loop, which stops at the first search address that finds.
RECURSIVE SearchLoop(_, _, _)
SearchLoop(funcs, addrs, k) ==
    IF k > Len(addrs) THEN 0
    ELSE IF FindFunc(funcs, addrs[k], 1) # 0 THEN FindFunc(funcs, addrs[k], 1)
    ELSE SearchLoop(funcs, addrs, k + 1)

\* How many times the outer loop calls _functions().
RECURSIVE SearchRounds(_, _, _)
SearchRounds(funcs, addrs, k) ==
    IF k > Len(addrs) THEN 0
    ELSE IF FindFunc(funcs, addrs[k], 1) # 0 THEN 1
    ELSE 1 + SearchRounds(funcs, addrs, k + 1)

\* The call of _decompile with nothing around it.
DecompileCatchNothing(out) == IF out = "raise" THEN "Error" ELSE out

\* Lines 146-150: any exception of _decompile becomes None.
DecompileCatch(out) == IF out = "raise" THEN "absent" ELSE out

\* Lines 127-152.  The outcome: the result ("text", "absent", or "Error" for an
\* exception that leaves decompile), the function handed to _decompile, and how often
\* lower_addr, _functions and _decompile were called.
decompile(b, addr) ==
    IF ~b.available
       THEN [result |-> "absent", func |-> NoFunc,
             nlower |-> 0, nfunctions |-> 0, ndecompile |-> 0]
    ELSE IF b.functionsFail
       THEN [result |-> "Error", func |-> NoFunc,
             nlower |-> 1, nfunctions |-> 1, ndecompile |-> 0]
    ELSE LET i == SearchLoop(b.functions, SearchAddrs(addr), 1)
             n == SearchRounds(b.functions, SearchAddrs(addr), 1)
         IN  IF i = 0
                THEN [result |-> "absent", func |-> NoFunc,
                      nlower |-> 1, nfunctions |-> n, ndecompile |-> 0]
                ELSE [result |-> DecompileCatch(b.decompile), func |-> b.functions[i],
                      nlower |-> 1, nfunctions |-> n, ndecompile |-> 1]

\* A backend for decompile: decompiler_available, the functions it enumerates, whether
\* its enumerator raises, and what its _decompile does ("text", "absent" or "raise").
DecompileBackends ==
    [name : {"decompile"},
     available : BOOLEAN,
     functions : SeqsUpTo(FuncStubs, MaxFuncs),
     functionsFail : BOOLEAN,
     decompile : {"text", "absent", "raise"}]

InitDecompile ==
    /\ SettersIdle
    /\ backend \in DecompileBackends
    /\ call = NoCall

Decompile(addr) ==
    /\ call' = [op |-> "decompile", addr |-> addr, out |-> decompile(backend, addr)]
    /\ UNCHANGED <<setVars, backend>>

NextDecompile == \E addr \in FuncAddrs : Decompile(addr)

SpecDecompile == InitDecompile /\ [][NextDecompile]_vars

\* The functions of the backend whose half-open range holds a.
FuncsAround(a) ==
    {backend.functions[i] : i \in {j \in DOMAIN backend.functions :
        /\ backend.functions[j].addr <= a
        /\ a < backend.functions[j].addr + backend.functions[j].size}}

\* C11: with the decompiler available (and the enumerator working), decompile(a)
\* hands _decompile a function whose range holds a as given when there is one, else
\* one whose range holds lower_addr(a) when there is one, and else returns absent
\* without calling _decompile.
C11_AddressTolerance ==
    (call.op = "decompile" /\ backend.available /\ ~backend.functionsFail) =>
        LET given == FuncsAround(call.addr)
            translated == FuncsAround(call.addr + BaseAddr)
        IN  /\ given # {} => (call.out.ndecompile = 1 /\ call.out.func \in given)
            /\ (given = {} /\ translated # {}) =>
                  (call.out.ndecompile = 1 /\ call.out.func \in translated)
            /\ (given = {} /\ translated = {}) =>
                  /\ call.out.ndecompile = 0
                  /\ call.out.func = NoFunc
                  /\ call.out.result = "absent"

\* C11 witness: no function holds the address as given, one holds the translated
\* address, and that one was decompiled.
C11_Witness ==
    /\ call.op = "decompile"
    /\ backend.available
    /\ ~backend.functionsFail
    /\ FuncsAround(call.addr) = {}
    /\ call.out.func \in FuncsAround(call.addr + BaseAddr)
    /\ call.out.ndecompile = 1
    /\ call.out.result = "text"

\* C12 as claimed: no backend failure leaves decompile as an exception, and without
\* an available decompiler the result is absent and the backend is not called.
C12_NoFailurePropagates ==
    call.op = "decompile" =>
        /\ call.out.result # "Error"
        /\ ~backend.available =>
              /\ call.out.result = "absent"
              /\ call.out.nlower + call.out.nfunctions + call.out.ndecompile = 0

\* C12 as amended: an exception of _decompile becomes an absent result; an exception
\* of the function enumerator leaves decompile as it is; without an available
\* decompiler the result is absent and neither the Lifter nor the backend is called.
C12_OnlyDecompileFailureCaught ==
    call.op = "decompile" =>
        /\ call.out.result = "Error" <=> (backend.available /\ backend.functionsFail)
        /\ (call.out.ndecompile = 1 /\ backend.decompile = "raise") =>
              call.out.result = "absent"
        /\ (call.out.ndecompile = 1 /\ backend.decompile # "raise") =>
              call.out.result = backend.decompile
        /\ ~backend.available =>
              /\ call.out.result = "absent"
              /\ call.out.nlower + call.out.nfunctions + call.out.ndecompile = 0

\* C12 witness: the located function's _decompile raised and the result is absent.
C12_Witness ==
    /\ call.op = "decompile"
    /\ call.out.ndecompile = 1
    /\ backend.decompile = "raise"
    /\ call.out.result = "absent"

\* ------------------------------------------------ the optional artifact API
\* Struct and enum names are 1..MaxNames; stack offsets are 0..MaxOffset; a function
\* has at most MaxStackVars stack variables.
MaxNames == 2
MaxOffset == 1
MaxStackVars == 2

Names == 1..MaxNames
Offsets == 0..MaxOffset

\* Dictionary keys: an integer (an address) and a string (a name) are never equal.
KeyInt(a) == <<"int", a>>

KeyStr(n) == <<"str", n>>

\* None, and an artifact as an enumerator or a getter gives it.
NoneValue == [kind |-> "None", key |-> <<"none", 0>>]

Stub(kind, key) == [kind |-> kind, key |-> key]

EmptyDict == [k \in {} |-> NoneValue]

\* The optional methods a backend adapter may override.
Enumerators ==
    {"_functions", "_stack_variables", "_global_vars", "_structs", "_enums",
     "_patches", "_comments"}

Getters ==
    {"_get_function", "_get_stack_variable", "_get_global_var", "_get_struct",
     "_get_enum", "_get_patch", "_get_comment"}

OptionalMethods == Enumerators \cup Getters \cup Setters

Implements(b, method) == method \in b.implemented

\* Lines 234-242, 217-225, 251-259: the existence views; {} unless overridden.
_structs(b) ==
    IF Implements(b, "_structs")
       THEN [k \in {KeyStr(n) : n \in b.structs} |-> Stub("Struct", k)]
       ELSE EmptyDict

_global_vars(b) ==
    IF Implements(b, "_global_vars")
       THEN [k \in {KeyInt(a) : a \in b.gvars} |-> Stub("GlobalVariable", k)]
       ELSE EmptyDict

_enums(b) ==
    IF Implements(b, "_enums")
       THEN [k \in {KeyStr(n) : n \in b.enums} |-> Stub("Enum", k)]
       ELSE EmptyDict

\* Lines 231-232, 214-215, 248-249: the getters; None unless overridden.
_get_struct(b, n) ==
    IF Implements(b, "_get_struct") /\ n \in b.structs
       THEN Stub("Struct", KeyStr(n)) ELSE NoneValue

_get_global_var(b, a) ==
    IF Implements(b, "_get_global_var") /\ a \in b.gvars
       THEN Stub("GlobalVariable", KeyInt(a)) ELSE NoneValue

_get_enum(b, n) ==
    IF Implements(b, "_get_enum") /\ n \in b.enums
       THEN Stub("Enum", KeyStr(n)) ELSE NoneValue

\* dict.update: the keys of both, the later value where both have the key.
DictUpdate(d, e) ==
    [k \in DOMAIN d \cup DOMAIN e |-> IF k \in DOMAIN e THEN e[k] ELSE d[k]]

\* The enums merged first and the structs last.
global_artifacts_enums_first(b) ==
    [result |-> DictUpdate(DictUpdate(DictUpdate(EmptyDict, _enums(b)),
                                      _global_vars(b)), _structs(b)),
     views |-> <<_structs(b), _global_vars(b), _enums(b)>>]

\* Lines 297-308: a new dict updated with structs, global variables, enums in that
\* order.  The outcome: the dict returned, and the three views after the call.
global_artifacts(b) ==
    [result |-> DictUpdate(DictUpdate(DictUpdate(EmptyDict, _structs(b)),
                                      _global_vars(b)), _enums(b)),
     views |-> <<_structs(b), _global_vars(b), _enums(b)>>]

\* Line 323, `if artifact:`: an artifact object is true, None is not.
Truthy(a) == a # NoneValue

\* The enum looked up before the struct.
global_artifact_enum_first(b, lookup) ==
    IF lookup[1] = "int"
       THEN [result |-> _get_global_var(b, lookup[2]), called |-> {"_get_global_var"}]
    ELSE IF lookup[1] = "str"
       THEN IF Truthy(_get_enum(b, lookup[2]))
               THEN [result |-> _get_enum(b, lookup[2]), called |-> {"_get_enum"}]
               ELSE [result |-> _get_struct(b, lookup[2]),
                     called |-> {"_get_struct", "_get_enum"}]
    ELSE [result |-> NoneValue, called |-> {}]

\* Lines 310-329.  The outcome: the value returned and the getters that were called.
global_artifact(b, lookup) ==
    IF lookup[1] = "int"
       THEN [result |-> _get_global_var(b, lookup[2]), called |-> {"_get_global_var"}]
    ELSE IF lookup[1] = "str"
       THEN IF Truthy(_get_struct(b, lookup[2]))
               THEN [result |-> _get_struct(b, lookup[2]), called |-> {"_get_struct"}]
               ELSE [result |-> _get_enum(b, lookup[2]),
                     called |-> {"_get_struct", "_get_enum"}]
    ELSE [result |-> NoneValue, called |-> {}]

\* What global_artifact is called with: an address, a name, or neither.
Lookups ==
    {KeyInt(a) : a \in Addrs} \cup {KeyStr(n) : n \in Names} \cup {<<"other", 0>>}

NoFunctions == [a \in {} |-> <<>>]

\* A backend that overrides every optional method, with the global artifacts it holds.
GlobalsBackends ==
    [name : {"globals"},
     implemented : {OptionalMethods},
     structs : SUBSET Names,
     enums : SUBSET Names,
     gvars : SUBSET Addrs,
     patches : {{}},
     comments : {{}},
     funcs : {NoFunctions},
     accepts : {{}}]

InitGlobals ==
    /\ SettersIdle
    /\ backend \in GlobalsBackends
    /\ call = NoCall

GlobalArtifact(lookup) ==
    /\ call' = [op |-> "global_artifact", lookup |-> lookup,
                out |-> global_artifact(backend, lookup)]
    /\ UNCHANGED <<setVars, backend>>

GlobalArtifacts ==
    /\ call' = [op |-> "global_artifacts", out |-> global_artifacts(backend)]
    /\ UNCHANGED <<setVars, backend>>

NextGlobals ==
    \/ \E lookup \in Lookups : GlobalArtifact(lookup)
    \/ GlobalArtifacts

SpecGlobals == InitGlobals /\ [][NextGlobals]_vars

\* C13: an integer lookup gives the backend's global variable at that address or
\* absent and calls neither _get_struct nor _get_enum; a string lookup gives the
\* struct of that name when there is one, and the enum of that name or absent only
\* when there is no such struct; any other lookup gives absent.
C13_GlobalArtifact ==
    call.op = "global_artifact" =>
        LET v == call.lookup[2]
            r == call.out.result
        IN  /\ call.lookup[1] = "int" =>
                  /\ r = (IF v \in backend.gvars
                             THEN [kind |-> "GlobalVariable", key |-> <<"int", v>>]
                             ELSE NoneValue)
                  /\ call.out.called \cap {"_get_struct", "_get_enum"} = {}
            /\ call.lookup[1] = "str" =>
                  /\ v \in backend.structs =>
                        r = [kind |-> "Struct", key |-> <<"str", v>>]
                  /\ (v \notin backend.structs /\ v \in backend.enums) =>
                        r = [kind |-> "Enum", key |-> <<"str", v>>]
                  /\ (v \notin backend.structs /\ v \notin backend.enums) =>
                        r = NoneValue
                  /\ "_get_global_var" \notin call.out.called
            /\ call.lookup[1] \notin {"int", "str"} =>
                  (r = NoneValue /\ call.out.called = {})

\* C13 witness: the name is a struct's and an enum's, and the struct is returned.
C13_Witness ==
    /\ call.op = "global_artifact"
    /\ call.lookup[1] = "str"
    /\ call.lookup[2] \in backend.structs \cap backend.enums
    /\ call.out.result.kind = "Struct"

\* C14: the keys of global_artifacts() are those of the struct, global-variable and
\* enum views together; a key of the enum view has the enum's value, any other key of
\* the global-variable view that view's value, the remaining keys the struct's; the
\* three views are as they were.
C14_GlobalArtifacts ==
    call.op = "global_artifacts" =>
        LET r == call.out.result
            sk == {<<"str", n>> : n \in backend.structs}
            gk == {<<"int", a>> : a \in backend.gvars}
            ek == {<<"str", n>> : n \in backend.enums}
        IN  /\ DOMAIN r = sk \cup gk \cup ek
            /\ \A k \in DOMAIN r :
                  r[k] = [kind |-> (IF k \in ek THEN "Enum"
                                    ELSE IF k \in gk THEN "GlobalVariable"
                                    ELSE "Struct"),
                          key |-> k]
            /\ DOMAIN call.out.views[1] = sk
            /\ DOMAIN call.out.views[2] = gk
            /\ DOMAIN call.out.views[3] = ek
            /\ \A k \in sk : call.out.views[1][k].kind = "Struct"

\* C14 witness: a struct and an enum share a name, and the merged value is the enum.
C14_Witness ==
    /\ call.op = "global_artifacts"
    /\ \E n \in backend.structs \cap backend.enums :
          call.out.result[<<"str", n>>].kind = "Enum"
    /\ backend.gvars # {}

\* ------------------------------------- the defaults of the optional artifact API
\* An enumerator or a getter ends by returning a value or by raising.
Returned(v) == [raised |-> "none", value |-> v]

Raised(e) == [raised |-> e, value |-> NoneValue]

\* Lines 180-188: {} unless overridden.
_functions(b) ==
    IF Implements(b, "_functions")
       THEN [k \in {KeyInt(a) : a \in DOMAIN b.funcs} |-> Stub("Function", k)]
       ELSE EmptyDict

\* Lines 177-178: None unless overridden; the full Function has its stack variables.
_get_function(b, addr) ==
    IF Implements(b, "_get_function") /\ addr \in DOMAIN b.funcs
       THEN [kind |-> "Function", key |-> KeyInt(addr), stack_vars |-> b.funcs[addr]]
       ELSE NoneValue

\* What a backend's own stack-variable methods answer from its functions.
BackendStackVariable(b, addr, offset) ==
    IF addr \in DOMAIN b.funcs /\ offset \in b.funcs[addr]
       THEN Stub("StackVariable", <<addr, offset>>) ELSE NoneValue

BackendStackVariables(b) ==
    [k \in {KeyInt(a) : a \in {x \in DOMAIN b.funcs : b.funcs[x] # {}}} |->
        [o \in b.funcs[k[2]] |-> Stub("StackVariable", <<k[2], o>>)]]

\* Lines 194-199: None when the function is None, else func.stack_vars.get(offset).
_get_stack_variable(b, addr, offset) ==
    IF Implements(b, "_get_stack_variable")
       THEN Returned(BackendStackVariable(b, addr, offset))
       ELSE LET func == _get_function(b, addr)
            IN  IF func = NoneValue THEN Returned(NoneValue)
                ELSE IF offset \in func.stack_vars
                        THEN Returned(Stub("StackVariable", <<addr, offset>>))
                        ELSE Returned(NoneValue)

\* Lines 201-208: for every address of _functions(), func = _get_function(addr) and
\* `func.stack_vars` is read: an AttributeError when func is None.
_stack_variables(b) ==
    IF Implements(b, "_stack_variables")
       THEN Returned(BackendStackVariables(b))
       ELSE IF \E k \in DOMAIN _functions(b) : _get_function(b, k[2]) = NoneValue
               THEN Raised("AttributeError")
               ELSE LET found == {k \in DOMAIN _functions(b) :
                                      _get_function(b, k[2]).stack_vars # {}}
                    IN  Returned([k \in found |->
                                    [o \in _get_function(b, k[2]).stack_vars |->
                                        Stub("StackVariable", <<k[2], o>>)]])

\* Lines 268-276, 285-286: patches and comments, {} and None unless overridden.
_patches(b) ==
    IF Implements(b, "_patches")
       THEN [k \in {KeyInt(a) : a \in b.patches} |-> Stub("Patch", k)] ELSE EmptyDict

_comments(b) ==
    IF Implements(b, "_comments")
       THEN [k \in {KeyInt(a) : a \in b.comments} |-> Stub("Comment", k)] ELSE EmptyDict

_get_patch(b, a) ==
    IF Implements(b, "_get_patch") /\ a \in b.patches
       THEN Stub("Patch", KeyInt(a)) ELSE NoneValue

_get_comment(b, a) ==
    IF Implements(b, "_get_comment") /\ a \in b.comments
       THEN Stub("Comment", KeyInt(a)) ELSE NoneValue

Enumerator(b, method) ==
    CASE method = "_functions" -> Returned(_functions(b))
      [] method = "_stack_variables" -> _stack_variables(b)
      [] method = "_global_vars" -> Returned(_global_vars(b))
      [] method = "_structs" -> Returned(_structs(b))
      [] method = "_enums" -> Returned(_enums(b))
      [] method = "_patches" -> Returned(_patches(b))
      [] method = "_comments" -> Returned(_comments(b))

\* What each getter is called with.
GetterArgs(method) ==
    CASE method = "_get_stack_variable" -> Addrs \X Offsets
      [] method \in {"_get_struct", "_get_enum"} -> {<<n>> : n \in Names}
      [] OTHER -> {<<a>> : a \in Addrs}

Getter(b, method, args) ==
    CASE method = "_get_function" -> Returned(_get_function(b, args[1]))
      [] method = "_get_stack_variable" -> _get_stack_variable(b, args[1], args[2])
      [] method = "_get_global_var" -> Returned(_get_global_var(b, args[1]))
      [] method = "_get_struct" -> Returned(_get_struct(b, args[1]))
      [] method = "_get_enum" -> Returned(_get_enum(b, args[1]))
      [] method = "_get_patch" -> Returned(_get_patch(b, args[1]))
      [] method = "_get_comment" -> Returned(_get_comment(b, args[1]))

\* The artifacts handed to the setters: a Function may own a header and has its stack
\* variables (by offset, in the order of its mapping); the other kinds have neither.
Plain(kind, addr) == [kind |-> kind, addr |-> addr, header |-> FALSE, stack_vars |-> <<>>]

Functions ==
    [kind : {"Function"}, addr : Addrs, header : BOOLEAN,
     stack_vars : SeqsUpTo(Offsets, MaxStackVars)]

Artifacts == Functions \cup {Plain(k, a) : k \in AllKinds \ {"Function"}, a \in Addrs}

\* An assignment in place of the or-assignment.
OrLast(x, y) == y

\* `update |= ...` on booleans.
Or(x, y) == IF x = "True" \/ y = "True" THEN "True" ELSE "False"

\* A backend's own setter: whether it reports a change is the backend's business.
\* The outcome: the result, and the setter bodies that ran, in order.
BackendSetter(b, s) ==
    [result |-> IF s \in b.accepts THEN "True" ELSE "False", calls |-> <<s>>]

\* A default that raises NotImplementedError, as _decompile does.
DefaultSetterNotImplemented(s) == [result |-> "Error", calls |-> <<s>>]

\* Lines 191-192, 211-212, 228-229, 245-246, 262-263, 279-280, 289-290: return False.
DefaultSetter(s) == [result |-> "False", calls |-> <<s>>]

LeafSetter(b, s) == IF Implements(b, s) THEN BackendSetter(b, s) ELSE DefaultSetter(s)

\* Lines 171-173: the loop over func.stack_vars.values().
RECURSIVE SetStackVariables(_, _, _, _)
SetStackVariables(b, svars, i, update) ==
    IF i > Len(svars) THEN update
    ELSE LET r == LeafSetter(b, "_set_stack_variable")
         IN  SetStackVariables(b, svars, i + 1,
                 [result |-> Or(update.result, r.result),
                  calls |-> update.calls \o r.calls])

\* Lines 165-175: the composite default of the Function setter.
_set_function(b, func) ==
    IF Implements(b, "_set_function") THEN BackendSetter(b, "_set_function")
    ELSE LET header == IF func.header
                          THEN LeafSetter(b, "_set_function_header")
                          ELSE [result |-> "False", calls |-> <<>>]
         IN  IF func.stack_vars # <<>>
                THEN SetStackVariables(b, func.stack_vars, 1, header)
                ELSE header

Setter(b, s, a) == IF s = "_set_function" THEN _set_function(b, a) ELSE LeafSetter(b, s)

\* Lines 331-365 over these setters.
set_artifact(b, artifact, lower) ==
    LET f == SetArtifactLowered([artifact |-> artifact, arg |-> artifact,
                                 lower |-> lower, nlower |-> 0])
        setter == SetMapGet(f.arg.kind)
    IN  IF setter = "None"
           THEN [result |-> "False", calls |-> <<>>, arg |-> f.arg]
           ELSE LET r == Setter(b, setter, f.arg)
                IN  [result |-> SetArtifactResult(r.result), calls |-> r.calls,
                     arg |-> f.arg]

\* What the binary holds does not depend on what the adapter overrides.
AllFunctions == [a \in Addrs |-> Offsets]

\* The sets of overridden methods explored.
ImplementedSets ==
    {{}, {"_functions"}, {"_set_function_header", "_set_stack_variable"},
     Setters \ {"_set_function"}, OptionalMethods}

OptionalBackends ==
    [name : {"optional"},
     implemented : ImplementedSets,
     structs : {Names},
     enums : {Names},
     gvars : {Addrs},
     patches : {Addrs},
     comments : {Addrs},
     funcs : {AllFunctions},
     accepts : SUBSET {"_set_function_header", "_set_stack_variable"}]

InitOptional ==
    /\ SettersIdle
    /\ backend \in OptionalBackends
    /\ call = NoCall

CallEnumerator(method) ==
    /\ call' = [op |-> "enumerator", method |-> method, out |-> Enumerator(backend, method)]
    /\ UNCHANGED <<setVars, backend>>

CallGetter(method, args) ==
    /\ call' = [op |-> "getter", method |-> method, args |-> args,
                out |-> Getter(backend, method, args)]
    /\ UNCHANGED <<setVars, backend>>

CallSetter(s, a) ==
    /\ call' = [op |-> "setter", method |-> s, artifact |-> a,
                out |-> Setter(backend, s, a)]
    /\ UNCHANGED <<setVars, backend>>

SetArtifactQuery(a, lower) ==
    /\ call' = [op |-> "set_artifact", artifact |-> a, lower |-> lower,
                out |-> set_artifact(backend, a, lower)]
    /\ UNCHANGED <<setVars, backend>>

NextOptional ==
    \/ \E method \in Enumerators : CallEnumerator(method)
    \/ \E method \in Getters : \E args \in GetterArgs(method) : CallGetter(method, args)
    \/ \E s \in Setters : \E a \in Artifacts :
          a.kind = SetterParamKind(s) /\ CallSetter(s, a)
    \/ \E a \in Artifacts : \E lower \in BOOLEAN : SetArtifactQuery(a, lower)
    \/ GlobalArtifacts

SpecOptional == InitOptional /\ [][NextOptional]_vars

\* C15: with no optional method overridden, global_artifacts() and every enumerator
\* are empty, every getter is absent, every setter, called directly or through
\* set_artifact with a concrete kind, returns false; no call raises, and no call
\* changes the lock, the backend or anything else of the interface.
C15_State ==
    backend.implemented = {} =>
        /\ call.op = "global_artifacts" => call.out.result = <<>>
        /\ call.op = "enumerator" =>
              (call.out.raised = "none" /\ DOMAIN call.out.value = {})
        /\ call.op = "getter" =>
              (call.out.raised = "none" /\ call.out.value.kind = "None")
        /\ call.op = "setter" => call.out.result = "False"
        /\ call.op = "set_artifact" => call.out.result = "False"

C15_GracefulDegradation ==
    /\ [](C15_State)
    /\ [][backend' = backend /\ UNCHANGED setVars]_vars

\* C15 witness: a Function with a header and two stack variables was set through
\* set_artifact into a backend that overrides nothing, and the answer was false.
C15_Witness ==
    /\ backend.implemented = {}
    /\ call.op = "set_artifact"
    /\ call.artifact.kind = "Function"
    /\ call.artifact.header
    /\ Len(call.artifact.stack_vars) = 2
    /\ call.out.result = "False"
    /\ call.out.calls = <<"_set_function_header", "_set_stack_variable", "_set_stack_variable">>

\* ----------------------------------------- stack variables of a partial backend
\* The functions a backend holds: some addresses, each with the offsets of its stack
\* variables.
FunctionTables == UNION {[S -> SUBSET Offsets] : S \in SUBSET Addrs}

StackVariableBackends ==
    [name : {"stack_variables"},
     implemented : {{"_functions"}, {"_functions", "_get_function"}, OptionalMethods},
     structs : {{}},
     enums : {{}},
     gvars : {{}},
     patches : {{}},
     comments : {{}},
     funcs : FunctionTables,
     accepts : {{}}]

InitStackVariables ==
    /\ SettersIdle
    /\ backend \in StackVariableBackends
    /\ call = NoCall

NextStackVariables ==
    \/ \E method \in Enumerators : CallEnumerator(method)
    \/ \E method \in Getters : \E args \in GetterArgs(method) : CallGetter(method, args)

SpecStackVariables == InitStackVariables /\ [][NextStackVariables]_vars

\* C20: for a backend that overrides only _functions, and has functions,
\* _stack_variables() returns an empty mapping and _get_stack_variable returns absent
\* for every address and offset; neither raises.
C20_PartialBackend ==
    (backend.implemented = {"_functions"} /\ DOMAIN backend.funcs # {}) =>
        /\ (call.op = "enumerator" /\ call.method = "_stack_variables") =>
              (call.out.raised = "none" /\ DOMAIN call.out.value = {})
        /\ (call.op = "getter" /\ call.method = "_get_stack_variable") =>
              (call.out.raised = "none" /\ call.out.value = NoneValue)

\* ---------------------------------------------------------- type_is_user_defined
\* The type parser's known primitive types (int, char) and the other base names.
Primitives == {<<"prim", 1>>, <<"prim", 2>>}

BaseTypes == Primitives \cup {KeyStr(n) : n \in Names}

\* Type strings: None, "", a string the parser cannot parse, and a base type name
\* with or without a pointer declarator.
TypeStrings ==
    {[form |-> f, base |-> <<"none", 0>>, pointer |-> FALSE] :
         f \in {"None", "empty", "unparsable"}}
    \cup [form : {"type"}, base : BaseTypes, pointer : BOOLEAN]

\* CTypeParser.parse_type: None when unparsable, else a CType whose base_type drops
\* the declarators and whose is_unknown says the base is not a known primitive.
parse_type(type_str) ==
    IF type_str.form = "type"
       THEN [kind |-> "CType", is_unknown |-> type_str.base \notin Primitives,
             base_type |-> type_str.base]
       ELSE NoneValue

\* The state argument: None (the default), or a State with its structs and enums.
NoState == [given |-> FALSE, _structs |-> {}, _enums |-> {}]

States == {NoState} \cup [given : {TRUE}, _structs : SUBSET Names, _enums : SUBSET Names]

\* Lines 443-457.  `state._structs` on None is an AttributeError.
type_is_user_defined(type_str, state) ==
    IF type_str.form \in {"None", "empty"} THEN Returned(NoneValue)
    ELSE LET type_ == parse_type(type_str)
         IN  IF type_ = NoneValue THEN Returned(NoneValue)
             ELSE IF ~type_.is_unknown THEN Returned(NoneValue)
             ELSE IF ~state.given THEN Raised("AttributeError")
             ELSE IF type_.base_type[2] \in state._structs
                     THEN Returned(type_.base_type)
                     ELSE Returned(NoneValue)

InitTypes ==
    /\ SettersIdle
    /\ backend = NoBackend
    /\ call = NoCall

TypeIsUserDefined(type_str, state) ==
    /\ call' = [op |-> "type_is_user_defined", type_str |-> type_str, state |-> state,
                out |-> type_is_user_defined(type_str, state)]
    /\ UNCHANGED <<setVars, backend>>

NextTypes == \E type_str \in TypeStrings : \E state \in States :
                 TypeIsUserDefined(type_str, state)

SpecTypes == InitTypes /\ [][NextTypes]_vars

\* C16: type_is_user_defined returns the base type name exactly when the string
\* parses, the base is not a known primitive and the name is one of the state's
\* structs; in every other case, a missing state included, it returns absent; it
\* never raises.
C16_TypeIsUserDefined ==
    call.op = "type_is_user_defined" =>
        LET user == /\ call.type_str.form = "type"
                    /\ call.type_str.base[1] = "str"
                    /\ call.state.given
                    /\ call.type_str.base[2] \in call.state._structs
        IN  /\ call.out.raised = "none"
            /\ user => call.out.value = call.type_str.base
            /\ ~user => call.out.value = NoneValue

\* ------------------------------------------------------------ discover_interface
\* yodalib.decompilers: the decompiler names, and the supported set.
IDA_DECOMPILER == "ida"
BINJA_DECOMPILER == "binja"
ANGR_DECOMPILER == "angr"
GHIDRA_DECOMPILER == "ghidra"

YODALIB_SUPPORTED_DECOMPILERS ==
    {IDA_DECOMPILER, BINJA_DECOMPILER, ANGR_DECOMPILER, GHIDRA_DECOMPILER}

\* force_decompiler: None (the default), the empty string, a supported name, or a
\* name that is not supported.
ForceDecompilers == {"None", "", "other"} \cup YODALIB_SUPPORTED_DECOMPILERS

\* The runtime environment: which modules can be imported, whether a `workspace`
\* global is found in the calling frames, and whether the backend's constructor
\* (with its own imports) succeeds.
Environments ==
    [name : {"environment"},
     idaapi : BOOLEAN, binaryninja : BOOLEAN, angr : BOOLEAN, angrmanagement : BOOLEAN,
     workspace : BOOLEAN,
     constructor : {"ok", "raise"}]

\* The name check skipped.
ForceUnsupportedNever(force) == FALSE

\* Line 479: `force_decompiler and force_decompiler not in SUPPORTED`.
ForceUnsupported(force) ==
    force \notin {"None", ""} /\ force \notin YODALIB_SUPPORTED_DECOMPILERS

\* Lines 487-503: the three import probes.
HasIda(env) == env.idaapi

HasBinja(env) == env.binaryninja

HasAngr(env) == env.angr /\ env.angrmanagement /\ env.workspace

Probed(env) ==
    <<"idaapi", "binaryninja", "angr">>
        \o (IF env.angr THEN <<"angrmanagement">> ELSE <<>>)

\* Line 506.
IsGhidra(env) == ~(HasIda(env) \/ HasBinja(env) \/ HasAngr(env))

\* Lines 509-524: the if/elif chain; "none" is the else branch.
SelectBackend(env, force) ==
    IF HasIda(env) \/ force = IDA_DECOMPILER THEN "IDAInterface"
    ELSE IF HasBinja(env) \/ force = BINJA_DECOMPILER THEN "BinjaInterface"
    ELSE IF HasAngr(env) \/ force = ANGR_DECOMPILER THEN "AngrInterface"
    ELSE IF IsGhidra(env) \/ force = GHIDRA_DECOMPILER THEN "GhidraInterface"
    ELSE "none"

\* Lines 471-526.  The outcome: the interface returned or the exception, which error
\* it was, the imports probed and the backends constructed.
discover_interface(env, force) ==
    IF ForceUnsupported(force)
       THEN [result |-> "ValueError", error |-> "unsupported",
             probed |-> <<>>, constructed |-> <<>>]
    ELSE LET selected == SelectBackend(env, force)
         IN  IF selected = "none"
                THEN [result |-> "ValueError", error |-> "no_backend",
                      probed |-> Probed(env), constructed |-> <<>>]
             ELSE IF env.constructor = "raise"
                THEN [result |-> "Error", error |-> "constructor",
                      probed |-> Probed(env), constructed |-> <<>>]
             ELSE [result |-> selected, error |-> "none",
                   probed |-> Probed(env), constructed |-> <<selected>>]

InitDiscover ==
    /\ SettersIdle
    /\ backend \in Environments
    /\ call = NoCall

DiscoverInterface(force) ==
    /\ call' = [op |-> "discover_interface", force |-> force,
                out |-> discover_interface(backend, force)]
    /\ UNCHANGED <<setVars, backend>>

NextDiscover == \E force \in ForceDecompilers : DiscoverInterface(force)

SpecDiscover == InitDiscover /\ [][NextDiscover]_vars

\* The backend class each decompiler name stands for.
InterfaceOf(name) ==
    CASE name = "ida" -> "IDAInterface"
      [] name = "binja" -> "BinjaInterface"
      [] name = "angr" -> "AngrInterface"
      [] name = "ghidra" -> "GhidraInterface"

\* C17: where the constructor succeeds, a supported force_decompiler decides the
\* backend whatever was detected; with no override the first detected of IDA, Binary
\* Ninja, angr decides, and Ghidra when none is.
C17_OverridePrecedence ==
    (call.op = "discover_interface" /\ backend.constructor = "ok") =>
        /\ call.force \in {"ida", "binja", "angr", "ghidra"} =>
              call.out.result = InterfaceOf(call.force)
        /\ call.force \in {"None", ""} =>
              call.out.result =
                  (IF backend.idaapi THEN "IDAInterface"
                   ELSE IF backend.binaryninja THEN "BinjaInterface"
                   ELSE IF backend.angr /\ backend.angrmanagement /\ backend.workspace
                        THEN "AngrInterface"
                   ELSE "GhidraInterface")

\* C18: a call either returns the one backend it constructed or raises having
\* constructed none; an unsupported force_decompiler raises before any import is
\* probed; with no override and nothing detected the Ghidra backend is constructed;
\* the no-backend error is raised exactly when no branch selects a backend.
C18_DiscoveryOutcome ==
    call.op = "discover_interface" =>
        LET out == call.out
            detected == \/ backend.idaapi
                        \/ backend.binaryninja
                        \/ (backend.angr /\ backend.angrmanagement /\ backend.workspace)
            selects == \/ backend.idaapi \/ call.force = "ida"
                       \/ backend.binaryninja \/ call.force = "binja"
                       \/ (backend.angr /\ backend.angrmanagement /\ backend.workspace)
                       \/ call.force = "angr"
                       \/ ~detected \/ call.force = "ghidra"
        IN  /\ \/ /\ out.result \in {"ValueError", "Error"}
                  /\ out.constructed = <<>>
               \/ /\ out.result \in {"IDAInterface", "BinjaInterface",
                                     "AngrInterface", "GhidraInterface"}
                  /\ out.constructed = <<out.result>>
            /\ call.force \in {"other"} =>
                  /\ out.result = "ValueError"
                  /\ out.error = "unsupported"
                  /\ out.probed = <<>>
                  /\ out.constructed = <<>>
            /\ (call.force \in {"None", ""} /\ ~detected /\ backend.constructor = "ok") =>
                  out.constructed = <<"GhidraInterface">>
            /\ (call.force # "other" /\ ~selects) =>
                  (out.result = "ValueError" /\ out.error = "no_backend")
            /\ out.error = "no_backend" => ~selects

\* C18 witness: nothing is detected, no override is given, Ghidra is constructed.
C18_Witness ==
    /\ call.op = "discover_interface"
    /\ call.force = "None"
    /\ ~backend.idaapi /\ ~backend.binaryninja /\ ~backend.angr
    /\ call.out.constructed = <<"GhidraInterface">>
    /\ call.out.probed = <<"idaapi", "binaryninja", "angr">>

\* ------------------------------------------------------------ the artifact tables
\* The most writes to the tables explored.
MaxWrites == 3

\* Lines 50-55: the kinds __init__ creates an ArtifactDict for.
TableKinds == {"Function", "StackVariable", "Comment", "Enum", "Struct", "Patch"}

\* The keys and the values written (two artifacts that differ).
TableKeys == {"k1", "k2"}

TableValues == {"v1", "v2"}

\* ArtifactDict(kind, self, error_on_duplicate=...): an empty table with its policy.
ArtifactDict(kind, error_on_duplicate) ==
    [kind |-> kind, error_on_duplicate |-> error_on_duplicate,
     items |-> [k \in {} |-> "v1"]]

\* Lines 41-55: the constructor.  The interface's own attribute is set to True
\* whatever the parameter (line 45); the tables take the parameter.
__init__(error_on_artifact_duplicates) ==
    [name |-> "tables",
     error_on_artifact_duplicates |-> error_on_artifact_duplicates,
     _error_on_artifact_duplicates |-> TRUE,
     tables |-> [kind \in TableKinds |-> ArtifactDict(kind, error_on_artifact_duplicates)],
     writes |-> 0]

\* ArtifactDict set (spec 4.2): a different value under an existing key is a
\* duplicate-artifact error under policy true and replaces under policy false; the
\* result is true iff something changed.
ArtifactDictSet(table, key, value) ==
    IF key \in DOMAIN table.items /\ table.items[key] # value
       THEN IF table.error_on_duplicate
               THEN [out |-> "DuplicateError", table |-> table]
               ELSE [out |-> "True",
                     table |-> [table EXCEPT !.items = [@ EXCEPT ![key] = value]]]
    ELSE IF key \in DOMAIN table.items
       THEN [out |-> "False", table |-> table]
    ELSE [out |-> "True",
          table |-> [table EXCEPT !.items =
                        [k \in DOMAIN table.items \cup {key} |->
                            IF k = key THEN value ELSE table.items[k]]]]

InitTables ==
    /\ SettersIdle
    /\ backend \in {__init__(p) : p \in BOOLEAN}
    /\ call = NoCall

\* A write to the table of a kind; a kind with no table has no attribute to write to.
TableSet(kind, key, value) ==
    /\ backend.writes < MaxWrites
    /\ IF kind \in DOMAIN backend.tables
          THEN LET r == ArtifactDictSet(backend.tables[kind], key, value)
               IN  /\ backend' = [backend EXCEPT !.tables[kind] = r.table,
                                                 !.writes = @ + 1]
                   /\ call' = [op |-> "table_set", kind |-> kind, key |-> key,
                               value |-> value, out |-> r.out,
                               before |-> backend.tables[kind].items]
          ELSE /\ backend' = [backend EXCEPT !.writes = @ + 1]
               /\ call' = [op |-> "table_set", kind |-> kind, key |-> key,
                           value |-> value, out |-> "AttributeError",
                           before |-> [k \in {} |-> "v1"]]
    /\ UNCHANGED setVars

NextTables ==
    \E kind \in ConcreteKinds : \E key \in TableKeys : \E value \in TableValues :
        TableSet(kind, key, value)

SpecTables == InitTables /\ [][NextTables]_vars

\* C19: every concrete artifact kind has a table, every table has the policy given to
\* the constructor; under policy true a different value under an existing key fails
\* with the duplicate-artifact error and leaves the table as it was; under policy
\* false the later write replaces the earlier one.
C19_DuplicatePolicy ==
    /\ \A kind \in ConcreteKinds : kind \in DOMAIN backend.tables
    /\ \A kind \in DOMAIN backend.tables :
          backend.tables[kind].error_on_duplicate = backend.error_on_artifact_duplicates
    /\ (call.op = "table_set" /\ call.kind \in DOMAIN backend.tables) =>
          LET items == backend.tables[call.kind].items
              differs == call.key \in DOMAIN call.before
                            /\ call.before[call.key] # call.value
          IN  /\ (differs /\ backend.error_on_artifact_duplicates) =>
                    (call.out = "DuplicateError" /\ items = call.before)
              /\ (differs /\ ~backend.error_on_artifact_duplicates) =>
                    (call.out = "True" /\ items[call.key] = call.value)

\* ------------------------------------------------ the default Function setter
\* What a leaf setter of this backend answers: true only when the backend overrides
\* it and reports a change.
LeafAnswersTrue(s) == s \in backend.implemented /\ s \in backend.accepts

\* C21: the default _set_function calls the header setter once exactly when the
\* Function has a header, then the stack-variable setter once for each stack
\* variable, whatever the earlier calls returned; its result is true exactly when
\* one of those calls returned true, and false with no header and no stack variables.
C21_DefaultSetFunction ==
    (/\ call.op = "setter"
     /\ call.method = "_set_function"
     /\ "_set_function" \notin backend.implemented) =>
        LET func == call.artifact
            n == Len(func.stack_vars)
            headerCalls == IF func.header THEN <<"_set_function_header">> ELSE <<>>
            anyTrue == \/ func.header /\ LeafAnswersTrue("_set_function_header")
                       \/ n > 0 /\ LeafAnswersTrue("_set_stack_variable")
        IN  /\ call.out.calls = headerCalls \o [i \in 1..n |-> "_set_stack_variable"]
            /\ call.out.result = (IF anyTrue THEN "True" ELSE "False")
            /\ (~func.header /\ n = 0) =>
                  (call.out.result = "False" /\ call.out.calls = <<>>)

\* C21 witness: the header setter returned true, the stack-variable setter returns
\* false, and both stack variables were still set; the result is true.
C21_Witness ==
    /\ call.op = "setter"
    /\ call.method = "_set_function"
    /\ "_set_function" \notin backend.implemented
    /\ LeafAnswersTrue("_set_function_header")
    /\ "_set_stack_variable" \in backend.implemented
    /\ ~LeafAnswersTrue("_set_stack_variable")
    /\ call.artifact.header
    /\ Len(call.artifact.stack_vars) = 2
    /\ call.out.calls =
          <<"_set_function_header", "_set_stack_variable", "_set_stack_variable">>
    /\ call.out.result = "True"

\* ---------------------------------------------------- lowering along a call path
\* Lines 167-169 in the body of the default _set_function, on a backend that
\* decorates its setters: the header, a part of the artifact the body was given, is
\* handed to the wrapped header setter, which runs artifact_set_event_handler.
SetFunctionHeaderCall(t) ==
    /\ stack[t] # <<>>
    /\ Top(t).fn = "setter"
    /\ Top(t).setter = "_set_function"
    /\ wrapped
    /\ ~Top(t).fired
    /\ Top(t).res = "none"
    /\ CallsInProgress < MaxCalls
    /\ stack' = [stack EXCEPT ![t] =
          Append(SetTop(@, [Top(t) EXCEPT !.fired = TRUE]),
                 NewFrame("handler", "_set_function_header",
                          [kind |-> "FunctionHeader", addr |-> Top(t).artifact.addr],
                          TRUE, "lowering"))]
    /\ UNCHANGED <<artifact_set_lock, ret, acquired, released, wrapped, live, backend, call>>

NextLowering ==
    \E t \in Threads :
        \/ SetArtifactStep(t)
        \/ HandlerStep(t)
        \/ SetterStep(t)
        \/ SetFunctionHeaderCall(t)

SpecLowering == InitSet /\ [][NextLowering]_vars

\* A frame where a path starts: the call of a public entry point (set_artifact, or a
\* wrapped setter called by a caller or by a change callback with a lifted artifact),
\* as opposed to a call made with the artifact of the frame below.
IsEntry(t, j) ==
    \/ j = 1
    \/ /\ stack[t][j].fn = "handler"
       /\ stack[t][j - 1].fn = "setter"
       /\ ~(stack[t][j].setter = "_set_function_header"
               /\ stack[t][j - 1].setter = "_set_function")

EntryBelow(t, i) == CHOOSE j \in 1..i : IsEntry(t, j) /\ \A k \in (j + 1)..i : ~IsEntry(t, k)

RECURSIVE PathLowerings(_, _, _)
PathLowerings(t, j, i) ==
    IF j > i THEN 0 ELSE stack[t][j].nlower + PathLowerings(t, j + 1, i)

\* C22: the artifact a setter body runs with was lowered at most once on the way from
\* the entry point: it is never the entry's artifact lowered twice.
C22_SingleLowering ==
    \A t \in Threads : \A i \in DOMAIN stack[t] :
        stack[t][i].fn = "setter" =>
            LET e == EntryBelow(t, i)
            IN  /\ PathLowerings(t, e, i) <= 1
                /\ stack[t][i].artifact.addr
                      # LowerAddr(LowerAddr(stack[t][e].artifact.addr))

====
